---- MODULE Spec2Model ----
(***************************************************************************)
(* Model of the three Flask services of observability-advanced:           *)
(*   api-gateway   (src/api-gateway/app.py)                                *)
(*   order-service (src/order-service/app.py)                              *)
(*   user-service  (src/user-service/app.py)                               *)
(* A request is identified by <<client, service>>: the external request    *)
(* of client e enters at one service and each service is called at most    *)
(* once on its behalf (gateway -> order -> user, no retries).  Every       *)
(* service runs its handlers on concurrent worker threads (Flask's         *)
(* app.run is threaded), so the steps of different requests interleave.    *)
(* Money is counted in cents (99.99 == 9999) and created_at is left out.   *)
(***************************************************************************)
EXTENDS Integers, Sequences, FiniteSets, TLC

\* ------------------------------------------------------------- bounds
\* External requests sent in one run; any number of them may be in progress at once.
MaxClients == 2
\* External requests sent to the user service in one run of SpecUsers.
MaxUserClients == 4
\* External requests sent in one run of SpecOrders.
MaxOrderClients == 3
\* Of these, the requests whose answer is outstanding at any one time.
MaxInFlight == 2
\* External requests sent one after the other in one run of SpecSequential.
MaxSeqClients == 4

\* ---------------------------------------------------------- constants
PricePerItemCents == 9999
\* timeout=10 of the gateway's outbound calls and timeout=5 of validate_user's, in
\* seconds.
GatewayTimeout == 10
UserServiceTimeout == 5

Gateway == "api-gateway"
OrderSvc == "order-service"
UserSvc == "user-service"
Services == {Gateway, OrderSvc, UserSvc}
Clients == 1..MaxClients
Reqs == Clients \X Services

CorrelationHeader == "X-Correlation-ID"
FailProduct == "fail_product"

\* --------------------------------------------------------- JSON values
\* A JSON scalar of a request body: an integer or a string.
JInt(n) == [kind |-> "int", n |-> n, s |-> ""]
JStr(s) == [kind |-> "str", n |-> 0, s |-> s]
JNull == [kind |-> "null", n |-> 0, s |-> ""]

\* A dict with no keys (no headers, no body, no locals).
EmptyDict == <<>>

\* dict.get(key, default)
DictGet(d, key, default) == IF key \in DOMAIN d THEN d[key] ELSE default

\* The integer literals int() is asked to parse in this model.
IntLiterals == {"2"}
LiteralValue(s) == CASE s = "2" -> 2 [] OTHER -> 0

\* int(x) of src/order-service/app.py:233: does it raise?
IntRaises(j) == \/ j.kind = "null"
                \/ j.kind = "str" /\ j.s \notin IntLiterals
\* int(x) where it does not raise.
IntOf(j) == IF j.kind = "int" THEN j.n ELSE LiteralValue(j.s)

\* str(x) of a JSON scalar, as an f-string formats it into a URL.
StrOf(j) == CASE j.kind = "int" -> ToString(j.n)
              [] j.kind = "str" -> j.s
              [] OTHER -> "None"

\* --------------------------------------------------------------- state
VARIABLES
    req,                            \* per request: position, inputs, g, locals, response
    issued,                         \* number of external requests sent so far
    http_requests_total,            \* per service: Counter by <<method, endpoint, status>>
    http_request_duration_seconds,  \* per service: Histogram count by <<method, endpoint>>
    http_requests_active,           \* per service: Gauge
    orders_db, order_id_counter,
    orders_created_total, order_value_total,
    users_db, user_id_counter, users_created_total

metrics == <<http_requests_total, http_request_duration_seconds, http_requests_active>>
orderState == <<orders_db, order_id_counter, orders_created_total, order_value_total>>
userState == <<users_db, user_id_counter, users_created_total>>
vars == <<req, issued, metrics, orderState, userState>>

\* A request slot that no request occupies yet.
NoRequest ==
    [pc |-> "none", caller |-> "", method |-> "", endpoint |-> "", arg |-> "",
     headers |-> EmptyDict, raw |-> "json", json |-> EmptyDict, prior |-> {},
     correlation_id |-> "", out_headers |-> EmptyDict,
     user_id |-> JNull, product |-> JNull, quantity |-> 0, total |-> 0,
     user_status |-> 0, new_id |-> "", tmp |-> 0,
     spans |-> <<>>, open |-> <<>>, events |-> <<>>, errored |-> {},
     attempts |-> 0, exc |-> "", error_handler |-> FALSE,
     waited |-> 0, busy |-> 0,
     status |-> 0, body |-> EmptyDict, resp_headers |-> EmptyDict]

Init ==
    /\ req = [r \in Reqs |-> NoRequest]
    /\ issued = 0
    /\ http_requests_total = [s \in Services |-> EmptyDict]
    /\ http_request_duration_seconds = [s \in Services |-> EmptyDict]
    /\ http_requests_active = [s \in Services |-> 0]
    /\ orders_db = EmptyDict
    /\ order_id_counter = 1
    /\ orders_created_total = EmptyDict
    /\ order_value_total = 0
    /\ users_db = EmptyDict
    /\ user_id_counter = 1
    /\ users_created_total = 0

\* ------------------------------------------------------------- helpers
Svc(r) == r[2]
Child(r, s) == <<r[1], s>>

\* prometheus_client Counter.labels(...).inc() on a labelled family.
CounterInc(c, label) ==
    IF label \in DOMAIN c THEN [c EXCEPT ![label] = @ + 1] ELSE c @@ (label :> 1)

\* jsonify({"error": msg}), status
ErrorBody(msg) == "error" :> msg

\* with tracer.start_as_current_span(name): the span starts and becomes the
\* current one (the innermost of the open spans).
StartSpan(q, name) ==
    [q EXCEPT !.spans = Append(@, name), !.open = Append(@, name),
              !.events = Append(@, <<"start", name>>)]
\* The end of a with block: the innermost open span ends.
EndSpan(q) ==
    [q EXCEPT !.open = SubSeq(@, 1, Len(@) - 1),
              !.events = Append(@, <<"end", q.open[Len(q.open)]>>)]
\* span.set_attribute("error", True) or span.set_status(Status(StatusCode.ERROR))
MarkError(q, names) == [q EXCEPT !.errored = @ \cup names]

\* An unwinding that leaves the with blocks without ending their spans.
UnwindLeaks(q) == [q EXCEPT !.open = <<>>]
\* A return or an exception leaves every enclosing with block, innermost first.
Unwind(q) ==
    [q EXCEPT !.open = <<>>,
              !.events = @ \o [i \in 1..Len(q.open) |->
                                 <<"end", q.open[Len(q.open) + 1 - i]>>]]

\* return jsonify(body), status from inside the view function's with blocks.
Respond(q, status, body) ==
    [Unwind(q) EXCEPT !.pc = "resp", !.status = status, !.body = body]
\* An exception leaves the view function; Flask hands it to the errorhandler.
\* Each with block it passes records it on its span (set_status_on_exception).
Raise(q) == [Unwind(MarkError(q, {q.open[i] : i \in 1..Len(q.open)})) EXCEPT !.pc = "raised"]

\* str(uuid.uuid4()), drawn once by each request: a random value, so no two
\* draws give the same one and none is a value a client sends.
Uuid4(r) == "uuid-" \o ToString(r[1]) \o "-" \o r[2]

\* A derivation that ignores the inbound header.
get_correlation_id_fresh(headers, fresh) == fresh
\* get_correlation_id(): request.headers.get('X-Correlation-ID', str(uuid.uuid4()))
get_correlation_id(headers, fresh) == DictGet(headers, CorrelationHeader, fresh)

\* An outbound call that forwards the inbound headers as they came.
OutboundHeadersInbound(q) == q.headers
\* headers = {'X-Correlation-ID': g.correlation_id} of an outbound call
OutboundHeaders(q) == CorrelationHeader :> q.correlation_id

\* user_id values for which f"/users/{user_id}" is a path no URL rule matches:
\* "/users/" and "/users/1/x".
UnroutableIds == {"", "1/x"}
\* The endpoint the user service's URL map gives GET /users/<arg>; 'unknown' is
\* the label after_request uses when no rule matched.
GetUserEndpoint(arg) == IF arg \in UnroutableIds THEN "unknown" ELSE "get_user"

\* The first position of the view function the URL map dispatches to; when no rule
\* matched, dispatching raises NotFound, which goes to the errorhandler.
ViewEntry(service, endpoint) ==
    IF endpoint = "unknown" THEN "raised"
    ELSE IF service = Gateway THEN "proxy_request" ELSE endpoint

\* ------------------------------------------------ the external clients
\* The clients whose request has been answered.
Answered == { c \in DOMAIN req : req[c].caller = "client" /\ req[c].pc = "done" }

\* Client e sends its request w (one entry of the workload) to w.svc.
Issue(e, w) ==
    /\ e = issued + 1
    /\ issued' = e
    /\ req' = [req EXCEPT ![<<e, w.svc>>] =
                 [NoRequest EXCEPT !.pc = "arrived", !.caller = "client",
                                   !.method = w.method, !.endpoint = w.endpoint,
                                   !.arg = w.arg, !.headers = w.headers,
                                   !.raw = w.raw, !.json = w.json,
                                   !.prior = Answered]]
    /\ UNCHANGED <<metrics, orderState, userState>>

\* ----------------------------------------------- before / after hooks
\* @app.before_request of every service.
BeforeRequest(r) ==
    LET q == req[r] IN
    /\ q.pc = "arrived"
    /\ http_requests_active' = [http_requests_active EXCEPT ![Svc(r)] = @ + 1]
    /\ req' = [req EXCEPT ![r] =
                 [q EXCEPT !.correlation_id = get_correlation_id(q.headers, Uuid4(r)),
                           !.pc = ViewEntry(Svc(r), q.endpoint)]]
    /\ UNCHANGED <<issued, http_requests_total, http_request_duration_seconds,
                   orderState, userState>>

\* An exit hook that labels every request as a success.
ExitLabelOk(q) == <<q.method, q.endpoint, 200>>
\* The labels of http_requests_total: method, endpoint or 'unknown', response status.
ExitLabel(q) == <<q.method, q.endpoint, q.status>>

\* @app.after_request of every service.
AfterRequest(r) ==
    LET q == req[r] IN
    /\ q.pc = "resp"
    /\ http_requests_total' = [http_requests_total EXCEPT ![Svc(r)] =
                                 CounterInc(@, ExitLabel(q))]
    /\ http_request_duration_seconds' = [http_request_duration_seconds EXCEPT ![Svc(r)] =
                                           CounterInc(@, <<q.method, q.endpoint>>)]
    /\ http_requests_active' = [http_requests_active EXCEPT ![Svc(r)] = @ - 1]
    /\ req' = [req EXCEPT ![r] =
                 [q EXCEPT !.pc = "done",
                           !.resp_headers = CorrelationHeader :> q.correlation_id]]
    /\ UNCHANGED <<issued, orderState, userState>>

\* A global handler whose response leaves without passing the exit hook.
AfterHandlerBypass == "done"
\* The response the global handler returns goes through after_request like any other.
AfterHandler == "resp"

\* @app.errorhandler(Exception) of every service.
handle_error(r) ==
    LET q == req[r] IN
    /\ q.pc = "raised"
    /\ req' = [req EXCEPT ![r] =
                 [q EXCEPT !.pc = AfterHandler, !.status = 500,
                           !.body = ErrorBody("Internal server error"),
                           !.error_handler = TRUE]]
    /\ UNCHANGED <<issued, metrics, orderState, userState>>

\* ------------------------------------------------------------ gateway
UserEndpoints == {"get_users", "get_user", "create_user", "delete_user"}
\* The service_url each gateway route passes to proxy_request.
ProxyTarget(endpoint) == IF endpoint \in UserEndpoints THEN UserSvc ELSE OrderSvc
ProxySpan(endpoint) ==
    IF endpoint \in UserEndpoints THEN "proxy_to_user-service" ELSE "proxy_to_order-service"

\* A proxy that sends whatever method it is given.
SupportedMethodsAny == {"GET", "POST", "DELETE", "PUT"}
\* The methods proxy_request has a branch for (lines 155-160).
SupportedMethods == {"GET", "POST", "DELETE"}

\* request.get_json() on a body that is not JSON (an empty body sent as
\* application/json): werkzeug raises BadRequest.
GetJsonRaises(q) == q.raw = "empty"

\* The classes of the requests exceptions an outbound call raises in this model,
\* each with the classes it inherits from.
ExcBases(exc) ==
    CASE exc = "ConnectTimeout" ->
             {"ConnectTimeout", "ConnectionError", "Timeout", "RequestException", "Exception"}
      [] exc = "ReadTimeout" -> {"ReadTimeout", "Timeout", "RequestException", "Exception"}
      [] exc = "ConnectionError" -> {"ConnectionError", "RequestException", "Exception"}
      [] exc = "ChunkedEncodingError" ->
             {"ChunkedEncodingError", "RequestException", "Exception"}
      [] OTHER -> {"Exception"}
IsInstance(exc, cls) == cls \in ExcBases(exc)

\* An except chain that tries ConnectionError before Timeout.
ProxyExceptConnectionFirst(exc) ==
    IF IsInstance(exc, "ConnectionError") THEN <<503, "Service unavailable">>
    ELSE IF IsInstance(exc, "Timeout") THEN <<504, "Service timeout">>
    ELSE <<500, "Internal server error">>
\* The except clauses of proxy_request, in their order (lines 175-202): the status
\* and the error message returned for an exception of class exc.
ProxyExcept(exc) ==
    IF IsInstance(exc, "Timeout") THEN <<504, "Service timeout">>
    ELSE IF IsInstance(exc, "ConnectionError") THEN <<503, "Service unavailable">>
    ELSE <<500, "Internal server error">>

\* The outbound call raised exc: the except clause marks the span and returns.
ProxyFailure(q, exc) ==
    Respond([MarkError(q, {ProxySpan(q.endpoint)}) EXCEPT !.exc = exc],
            ProxyExcept(exc)[1], ErrorBody(ProxyExcept(exc)[2]))

\* proxy_request entered and one outbound attempt begun (lines 140-160).
ProxyAttempt(q) ==
    [StartSpan(q, ProxySpan(q.endpoint)) EXCEPT !.out_headers = OutboundHeaders(q),
                                                !.attempts = @ + 1]

\* A pass-through that turns every backend status into 200.
ProxyStatusOk(c) == 200
\* return response.json(), response.status_code (line 173): the status passed on.
ProxyStatus(c) == c.status

\* The route's view function and proxy_request up to and including
\* requests.get/post/delete sending the call, or the 405 for any other method.
ProxySend(r) ==
    LET q == req[r]
        c == Child(r, ProxyTarget(q.endpoint))
        q1 == ProxyAttempt(q) IN
    /\ Svc(r) = Gateway
    /\ q.pc = "proxy_request"
    /\ req' = IF q.method = "POST" /\ GetJsonRaises(q)
              THEN [req EXCEPT ![r] = Raise(q)]
              ELSE IF q.method \notin SupportedMethods
              THEN [req EXCEPT ![r] =
                      Respond(StartSpan(q, ProxySpan(q.endpoint)), 405,
                              ErrorBody("Method not supported"))]
              ELSE [req EXCEPT
                      ![r] = [q1 EXCEPT !.pc = "proxy_wait"],
                      ![c] = [NoRequest EXCEPT !.pc = "arrived", !.caller = Gateway,
                                               !.method = q.method, !.endpoint = q.endpoint,
                                               !.arg = q.arg, !.headers = OutboundHeaders(q),
                                               !.json = IF q.method = "POST" THEN q.json
                                                        ELSE EmptyDict]]
    /\ UNCHANGED <<issued, metrics, orderState, userState>>

\* Can the view function go past request.get_json() and make an outbound attempt?
ProxyCanAttempt(q) ==
    /\ q.pc = "proxy_request"
    /\ q.method \in SupportedMethods
    /\ ~(q.method = "POST" /\ GetJsonRaises(q))

\* except requests.exceptions.ConnectionError: the call cannot be established.
ProxyConnectionError(r) ==
    LET q == req[r] IN
    /\ Svc(r) = Gateway
    /\ ProxyCanAttempt(q)
    /\ req' = [req EXCEPT ![r] = ProxyFailure(ProxyAttempt(q), "ConnectionError")]
    /\ UNCHANGED <<issued, metrics, orderState, userState>>

\* The backend answered: return response.json(), response.status_code
ProxyResponse(r) ==
    LET q == req[r]
        c == req[Child(r, ProxyTarget(q.endpoint))] IN
    /\ Svc(r) = Gateway
    /\ q.pc = "proxy_wait"
    /\ c.pc = "done"
    /\ req' = [req EXCEPT ![r] = Respond(q, ProxyStatus(c), c.body)]
    /\ UNCHANGED <<issued, metrics, orderState, userState>>

\* except requests.exceptions.Timeout: the connection is not made (ConnectTimeout)
\* or no answer arrives (ReadTimeout) within timeout=10.
ProxyTimeout(r) ==
    LET q == req[r]
        c == req[Child(r, ProxyTarget(q.endpoint))] IN
    /\ Svc(r) = Gateway
    /\ \/ /\ ProxyCanAttempt(q)
          /\ req' = [req EXCEPT ![r] = ProxyFailure(ProxyAttempt(q), "ConnectTimeout")]
       \/ /\ q.pc = "proxy_wait"
          /\ c.pc # "done"
          /\ req' = [req EXCEPT ![r] = ProxyFailure(q, "ReadTimeout")]
    /\ UNCHANGED <<issued, metrics, orderState, userState>>

\* except Exception: any other failure, such as an answer that breaks off while
\* it is read.
ProxyOtherError(r) ==
    LET q == req[r] IN
    /\ Svc(r) = Gateway
    /\ q.pc = "proxy_wait"
    /\ req[Child(r, ProxyTarget(q.endpoint))].pc = "done"
    /\ req' = [req EXCEPT ![r] = ProxyFailure(q, "ChunkedEncodingError")]
    /\ UNCHANGED <<issued, metrics, orderState, userState>>

\* ------------------------------------------------------- user service
UserRecord(q) == [id |-> q.new_id, name |-> q.json["name"], email |-> q.json["email"]]

\* jsonify(list(db.values())): the records of a store (their order is left out).
ListBody(db) == "items" :> { db[k] : k \in DOMAIN db }

\* get_users (lines 154-166): the whole list in one step.
GetUsers(r) ==
    LET q == StartSpan(req[r], "get_users") IN
    /\ Svc(r) = UserSvc
    /\ req[r].pc = "get_users"
    /\ req' = [req EXCEPT ![r] = Respond(q, 200, ListBody(users_db))]
    /\ UNCHANGED <<issued, metrics, orderState, userState>>

\* get_user: the membership test (lines 172-188).
GetUserCheck(r) ==
    LET q == StartSpan(req[r], "get_user") IN
    /\ Svc(r) = UserSvc
    /\ req[r].pc = "get_user"
    /\ req' = [req EXCEPT ![r] =
                 IF q.arg \notin DOMAIN users_db
                 THEN Respond(MarkError(q, {"get_user"}), 404, ErrorBody("User not found"))
                 ELSE [q EXCEPT !.pc = "get_user_read"]]
    /\ UNCHANGED <<issued, metrics, orderState, userState>>

\* get_user: user = users_db[user_id] and the 200 response (lines 190-199).
GetUserRead(r) ==
    LET q == req[r] IN
    /\ Svc(r) = UserSvc
    /\ q.pc = "get_user_read"
    /\ req' = [req EXCEPT ![r] =
                 IF q.arg \in DOMAIN users_db
                 THEN Respond(q, 200, users_db[q.arg])
                 ELSE Raise(q)]
    /\ UNCHANGED <<issued, metrics, orderState, userState>>

\* create_user: get_json, input validation and user_id = str(user_id_counter)
\* (lines 206-221).
CreateUserReadId(r) ==
    LET q == StartSpan(req[r], "create_user") IN
    /\ Svc(r) = UserSvc
    /\ req[r].pc = "create_user"
    /\ req' = [req EXCEPT ![r] =
                 IF GetJsonRaises(q) THEN Raise(q)
                 ELSE IF q.json = EmptyDict \/ "name" \notin DOMAIN q.json
                         \/ "email" \notin DOMAIN q.json
                 THEN Respond(MarkError(q, {"create_user"}), 400,
                              ErrorBody("Missing required fields: name, email"))
                 ELSE [q EXCEPT !.new_id = ToString(user_id_counter),
                                !.pc = "create_user_load"]]
    /\ UNCHANGED <<issued, metrics, orderState, userState>>

\* create_user: user_id_counter += 1 reads the global ...
CreateUserLoadCounter(r) ==
    LET q == req[r] IN
    /\ Svc(r) = UserSvc
    /\ q.pc = "create_user_load"
    /\ req' = [req EXCEPT ![r] = [q EXCEPT !.tmp = user_id_counter,
                                           !.pc = "create_user_store"]]
    /\ UNCHANGED <<issued, metrics, orderState, userState>>

\* ... and writes it back.
CreateUserStoreCounter(r) ==
    LET q == req[r] IN
    /\ Svc(r) = UserSvc
    /\ q.pc = "create_user_store"
    /\ user_id_counter' = q.tmp + 1
    /\ req' = [req EXCEPT ![r] = [q EXCEPT !.pc = "create_user_insert"]]
    /\ UNCHANGED <<issued, metrics, orderState, users_db, users_created_total>>

\* create_user: users_db[user_id] = user, the metric and the 201 (lines 224-249).
CreateUserInsert(r) ==
    LET q == req[r] IN
    /\ Svc(r) = UserSvc
    /\ q.pc = "create_user_insert"
    /\ users_db' = [k \in DOMAIN users_db \cup {q.new_id} |->
                      IF k = q.new_id THEN UserRecord(q) ELSE users_db[k]]
    /\ users_created_total' = users_created_total + 1
    /\ req' = [req EXCEPT ![r] = Respond(q, 201, UserRecord(q))]
    /\ UNCHANGED <<issued, metrics, orderState, user_id_counter>>

\* delete_user: the membership test (lines 255-265).
DeleteUserCheck(r) ==
    LET q == StartSpan(req[r], "delete_user") IN
    /\ Svc(r) = UserSvc
    /\ req[r].pc = "delete_user"
    /\ req' = [req EXCEPT ![r] =
                 IF q.arg \notin DOMAIN users_db
                 THEN Respond(MarkError(q, {"delete_user"}), 404,
                              ErrorBody("User not found"))
                 ELSE [q EXCEPT !.pc = "delete_user_pop"]]
    /\ UNCHANGED <<issued, metrics, orderState, userState>>

\* delete_user: users_db.pop(user_id) and the 200 response (lines 267-276).
DeleteUserPop(r) ==
    LET q == req[r] IN
    /\ Svc(r) = UserSvc
    /\ q.pc = "delete_user_pop"
    /\ IF q.arg \in DOMAIN users_db
       THEN /\ users_db' = [k \in DOMAIN users_db \ {q.arg} |-> users_db[k]]
            /\ req' = [req EXCEPT ![r] = Respond(q, 200, "message" :> "User deleted")]
       ELSE /\ users_db' = users_db
            /\ req' = [req EXCEPT ![r] = Raise(q)]
    /\ UNCHANGED <<issued, metrics, orderState, user_id_counter,
                   users_created_total>>

\* ------------------------------------------------------ order service
\* The order dict built in save_order (lines 330-338).
OrderRecord(q) ==
    [id |-> q.new_id, user_id |-> q.user_id, product |-> q.product,
     quantity |-> q.quantity, total |-> q.total, status |-> "pending"]

\* price_per_item * quantity (lines 313-314), in cents.
OrderTotal(quantity) == PricePerItemCents * quantity

\* A classification that lets every status but 404 through.
ValidateOutcomeOnly404(status) == IF status = 404 THEN 404 ELSE 0
\* A classification that forgets the 404 of the user service.
ValidateOutcomeNo404(status) == IF status \notin {200, 404} THEN 500 ELSE 0
\* validate_user's classification of the user service's status (lines 259-278):
\* the status create_order returns at once, or 0 to go on.
ValidateOutcome(status) ==
    IF status = 404 THEN 404 ELSE IF status # 200 THEN 500 ELSE 0

\* A guard that never injects the failure.
InjectsFailureNever(product) == FALSE

\* The outcome of calculate_total's guard (line 303): is the failure injected?
InjectsFailure(product) == product.kind = "str" /\ product.s = FailProduct

\* get_orders (lines 165-177): the whole list in one step.
GetOrders(r) ==
    LET q == StartSpan(req[r], "get_orders") IN
    /\ Svc(r) = OrderSvc
    /\ req[r].pc = "get_orders"
    /\ req' = [req EXCEPT ![r] = Respond(q, 200, ListBody(orders_db))]
    /\ UNCHANGED <<issued, metrics, orderState, userState>>

\* get_order: the membership test (lines 183-199).
GetOrderCheck(r) ==
    LET q == StartSpan(req[r], "get_order") IN
    /\ Svc(r) = OrderSvc
    /\ req[r].pc = "get_order"
    /\ req' = [req EXCEPT ![r] =
                 IF q.arg \notin DOMAIN orders_db
                 THEN Respond(MarkError(q, {"get_order"}), 404,
                              ErrorBody("Order not found"))
                 ELSE [q EXCEPT !.pc = "get_order_read"]]
    /\ UNCHANGED <<issued, metrics, orderState, userState>>

\* get_order: order = orders_db[order_id] and the 200 response (lines 201-210).
GetOrderRead(r) ==
    LET q == req[r] IN
    /\ Svc(r) = OrderSvc
    /\ q.pc = "get_order_read"
    /\ req' = [req EXCEPT ![r] =
                 IF q.arg \in DOMAIN orders_db
                 THEN Respond(q, 200, orders_db[q.arg])
                 ELSE Raise(q)]
    /\ UNCHANGED <<issued, metrics, orderState, userState>>

\* create_order: get_json, input validation, the locals and int(quantity)
\* (lines 218-249).
CreateOrderValidateInput(r) ==
    LET q == StartSpan(req[r], "create_order")
        data == q.json IN
    /\ Svc(r) = OrderSvc
    /\ req[r].pc = "create_order"
    /\ req' = [req EXCEPT ![r] =
                 IF GetJsonRaises(q) THEN Raise(q)
                 ELSE IF data = EmptyDict \/ "user_id" \notin DOMAIN data
                         \/ "product" \notin DOMAIN data \/ "quantity" \notin DOMAIN data
                 THEN Respond(MarkError(q, {"create_order"}), 400,
                              ErrorBody("Missing required fields: user_id, product, quantity"))
                 ELSE IF IntRaises(data["quantity"])
                 THEN Raise(q)
                 ELSE [StartSpan(q, "validate_user") EXCEPT
                          !.user_id = data["user_id"], !.product = data["product"],
                          !.quantity = IntOf(data["quantity"]),
                          !.pc = "validate_user"]]
    /\ UNCHANGED <<issued, metrics, orderState, userState>>

\* validate_user: requests.get(.../users/{user_id}, headers, timeout=5) is sent.
ValidateUserSend(r) ==
    LET q == req[r]
        c == Child(r, UserSvc) IN
    /\ Svc(r) = OrderSvc
    /\ q.pc = "validate_user"
    /\ req' = [req EXCEPT
                 ![r] = [q EXCEPT !.pc = "validate_user_wait",
                                  !.out_headers = OutboundHeaders(q)],
                 ![c] = [NoRequest EXCEPT !.pc = "arrived", !.caller = OrderSvc,
                                          !.method = "GET",
                                          !.endpoint = GetUserEndpoint(StrOf(q.user_id)),
                                          !.arg = StrOf(q.user_id),
                                          !.headers = OutboundHeaders(q)]]
    /\ UNCHANGED <<issued, metrics, orderState, userState>>

\* The except clause of validate_user (line 288): is an exception of class exc
\* caught there?
ValidateUserCatches(exc) == IsInstance(exc, "RequestException")

\* validate_user: except requests.exceptions.RequestException (lines 288-298):
\* the call cannot be made (ConnectionError), or no answer arrives within
\* timeout=5 (ReadTimeout).
ValidateUserRequestException(r) ==
    LET q == req[r] IN
    /\ Svc(r) = OrderSvc
    /\ \E exc \in {"ConnectionError", "ReadTimeout"} :
          /\ \/ exc = "ConnectionError" /\ q.pc = "validate_user"
             \/ /\ exc = "ReadTimeout" /\ q.pc = "validate_user_wait"
                /\ req[Child(r, UserSvc)].pc # "done"
          /\ req' = [req EXCEPT ![r] =
                       IF ValidateUserCatches(exc)
                       THEN Respond([MarkError(q, {"validate_user", "create_order"})
                                       EXCEPT !.out_headers = OutboundHeaders(q),
                                              !.exc = exc],
                                    503, ErrorBody("Service unavailable"))
                       ELSE Raise([q EXCEPT !.exc = exc])]
    /\ UNCHANGED <<issued, metrics, orderState, userState>>

\* validate_user: the user service answered (lines 259-286).
ValidateUserResponse(r) ==
    LET q == req[r]
        c == req[Child(r, UserSvc)]
        q1 == [q EXCEPT !.user_status = c.status] IN
    /\ Svc(r) = OrderSvc
    /\ q.pc = "validate_user_wait"
    /\ c.pc = "done"
    /\ req' = [req EXCEPT ![r] =
                 IF ValidateOutcome(c.status) = 404
                 THEN Respond(MarkError(q1, {"validate_user", "create_order"}),
                              404, ErrorBody("User not found"))
                 ELSE IF ValidateOutcome(c.status) = 500
                 THEN Respond(MarkError(q1, {"validate_user", "create_order"}),
                              500, ErrorBody("Failed to validate user"))
                 ELSE [EndSpan(q1) EXCEPT !.pc = "calculate_total"]]
    /\ UNCHANGED <<issued, metrics, orderState, userState>>

\* calculate_total (lines 301-323).
CalculateTotal(r) ==
    LET q == StartSpan(req[r], "calculate_total") IN
    /\ Svc(r) = OrderSvc
    /\ req[r].pc = "calculate_total"
    /\ req' = [req EXCEPT ![r] =
                 IF InjectsFailure(q.product) THEN Raise(q)
                 ELSE [EndSpan(q) EXCEPT !.total = OrderTotal(q.quantity),
                                         !.pc = "save_order"]]
    /\ UNCHANGED <<issued, metrics, orderState, userState>>

\* An id taken from the number of orders in the store.
NextOrderIdFromStore == ToString(Cardinality(DOMAIN orders_db) + 1)
\* str(order_id_counter) (line 327)
NextOrderId == ToString(order_id_counter)

\* save_order: order_id = str(order_id_counter) (line 327).
SaveOrderReadId(r) ==
    LET q == StartSpan(req[r], "save_order") IN
    /\ Svc(r) = OrderSvc
    /\ req[r].pc = "save_order"
    /\ req' = [req EXCEPT ![r] = [q EXCEPT !.new_id = NextOrderId,
                                           !.pc = "save_order_load"]]
    /\ UNCHANGED <<issued, metrics, orderState, userState>>

\* save_order: order_id_counter += 1 reads the global (line 328) ...
SaveOrderLoadCounter(r) ==
    LET q == req[r] IN
    /\ Svc(r) = OrderSvc
    /\ q.pc = "save_order_load"
    /\ req' = [req EXCEPT ![r] = [q EXCEPT !.tmp = order_id_counter,
                                           !.pc = "save_order_store"]]
    /\ UNCHANGED <<issued, metrics, orderState, userState>>

\* ... and writes it back.
SaveOrderStoreCounter(r) ==
    LET q == req[r] IN
    /\ Svc(r) = OrderSvc
    /\ q.pc = "save_order_store"
    /\ order_id_counter' = q.tmp + 1
    /\ req' = [req EXCEPT ![r] = [q EXCEPT !.pc = "save_order_insert"]]
    /\ UNCHANGED <<issued, metrics, orders_db, orders_created_total,
                   order_value_total, userState>>

\* save_order: orders_db[order_id] = order (lines 330-347).
SaveOrderInsert(r) ==
    LET q == req[r] IN
    /\ Svc(r) = OrderSvc
    /\ q.pc = "save_order_insert"
    /\ orders_db' = [k \in DOMAIN orders_db \cup {q.new_id} |->
                       IF k = q.new_id THEN OrderRecord(q) ELSE orders_db[k]]
    /\ req' = [req EXCEPT ![r] = [EndSpan(q) EXCEPT !.pc = "business_metrics"]]
    /\ UNCHANGED <<issued, metrics, order_id_counter, orders_created_total,
                   order_value_total, userState>>

\* A counter that accepts any amount.
CounterIncRaisesNever(amount) == FALSE
\* prometheus_client Counter.inc(amount) raises ValueError for amount < 0.
CounterIncRaises(amount) == amount < 0

\* create_order: the business metrics and the 201 response (lines 349-368).
BusinessMetrics(r) ==
    LET q == req[r] IN
    /\ Svc(r) = OrderSvc
    /\ q.pc = "business_metrics"
    /\ orders_created_total' = CounterInc(orders_created_total, StrOf(q.product))
    /\ IF CounterIncRaises(q.total)
       THEN /\ order_value_total' = order_value_total
            /\ req' = [req EXCEPT ![r] = Raise(q)]
       ELSE /\ order_value_total' = order_value_total + q.total
            /\ req' = [req EXCEPT ![r] = Respond(q, 201, OrderRecord(q))]
    /\ UNCHANGED <<issued, metrics, orders_db, order_id_counter, userState>>

\* delete_order: the membership test (lines 374-384).
DeleteOrderCheck(r) ==
    LET q == StartSpan(req[r], "delete_order") IN
    /\ Svc(r) = OrderSvc
    /\ req[r].pc = "delete_order"
    /\ req' = [req EXCEPT ![r] =
                 IF q.arg \notin DOMAIN orders_db
                 THEN Respond(MarkError(q, {"delete_order"}), 404,
                              ErrorBody("Order not found"))
                 ELSE [q EXCEPT !.pc = "delete_order_pop"]]
    /\ UNCHANGED <<issued, metrics, orderState, userState>>

\* delete_order: orders_db.pop(order_id) and the 200 response (lines 386-395).
DeleteOrderPop(r) ==
    LET q == req[r] IN
    /\ Svc(r) = OrderSvc
    /\ q.pc = "delete_order_pop"
    /\ IF q.arg \in DOMAIN orders_db
       THEN /\ orders_db' = [k \in DOMAIN orders_db \ {q.arg} |-> orders_db[k]]
            /\ req' = [req EXCEPT ![r] = Respond(q, 200, "message" :> "Order deleted")]
       ELSE /\ orders_db' = orders_db
            /\ req' = [req EXCEPT ![r] = Raise(q)]
    /\ UNCHANGED <<issued, metrics, order_id_counter, orders_created_total,
                   order_value_total, userState>>

\* --------------------------------------------------------------- time
\* The service request r's outbound call goes to.
Callee(r) == IF Svc(r) = Gateway THEN ProxyTarget(req[r].endpoint) ELSE UserSvc
\* Request r has sent its outbound call and no answer has come yet.
Outstanding(r) ==
    /\ req[r].pc \in {"proxy_wait", "validate_user_wait"}
    /\ req[Child(r, Callee(r))].pc # "done"
\* A worker thread of the order service is busy with request r's own steps.
Running(r) ==
    Svc(r) = OrderSvc /\ req[r].pc \notin {"none", "done"} /\ ~Outstanding(r)

\* The two services with each other's timeout.
TimeoutSwapped(service) ==
    IF service = Gateway THEN UserServiceTimeout ELSE GatewayTimeout
\* timeout= of the outbound calls of a service (api-gateway lines 156-160,
\* order-service line 256).
Timeout(service) == IF service = Gateway THEN GatewayTimeout ELSE UserServiceTimeout

\* requests raises its Timeout when no answer has come for timeout seconds.
TimerExpired(r) == Outstanding(r) /\ req[r].waited >= Timeout(Svc(r))

\* The most the order service's own steps take in all: less than the difference of
\* the two timeouts.
MaxOrderBusy == GatewayTimeout - UserServiceTimeout - 1

\* One second passes for every request in progress. A call whose timeout has
\* expired raises before more time passes.
Tick ==
    /\ \E r \in Reqs : Outstanding(r)
    /\ \A r \in Reqs : ~TimerExpired(r)
    /\ \A r \in Reqs : Running(r) => req[r].busy < MaxOrderBusy
    /\ req' = [r \in Reqs |->
                 IF Outstanding(r) THEN [req[r] EXCEPT !.waited = @ + 1]
                 ELSE IF Running(r) THEN [req[r] EXCEPT !.busy = @ + 1]
                 ELSE req[r]]
    /\ UNCHANGED <<issued, metrics, orderState, userState>>

\* ------------------------------------------------------- the workload
Request(svc, method, endpoint, arg, headers, json) ==
    [svc |-> svc, method |-> method, endpoint |-> endpoint, arg |-> arg,
     headers |-> headers, raw |-> "json", json |-> json]

NoHeaders == EmptyDict
WithCorrelation(v) == CorrelationHeader :> v

UserBody == [name |-> "alice", email |-> "alice@example.com"]
OrderBody(u, p, qty) == [user_id |-> JStr(u), product |-> JStr(p), quantity |-> qty]

CreateUser(svc, h, b) == Request(svc, "POST", "create_user", "", h, b)
CreateOrder(svc, h, b) == Request(svc, "POST", "create_order", "", h, b)

GetUser(svc, id) == Request(svc, "GET", "get_user", id, NoHeaders, EmptyDict)
GetUsersList(svc) == Request(svc, "GET", "get_users", "", NoHeaders, EmptyDict)
DeleteUser(svc, id) == Request(svc, "DELETE", "delete_user", id, NoHeaders, EmptyDict)
GetOrder(svc, id) == Request(svc, "GET", "get_order", id, NoHeaders, EmptyDict)
GetOrdersList(svc) == Request(svc, "GET", "get_orders", "", NoHeaders, EmptyDict)
DeleteOrder(svc, id) == Request(svc, "DELETE", "delete_order", id, NoHeaders, EmptyDict)
\* The same request with Content-Type: application/json and an empty body.
WithoutBody(w) == [w EXCEPT !.raw = "empty", !.json = EmptyDict]

\* Requests sent straight to the order service and the user service.
BackendWorkload ==
    { CreateUser(UserSvc, NoHeaders, UserBody) }
    \cup { CreateOrder(OrderSvc, NoHeaders, b) :
             b \in { OrderBody("1", "widget", JInt(2)), OrderBody("1", "widget", JInt(-1)),
                     OrderBody("1", FailProduct, JInt(2)) } }

\* Creations sent straight to the two services while no user exists: incomplete
\* bodies, no body, and orders for a user id that is unknown or is no id at all.
InputsWorkload ==
    { CreateUser(UserSvc, NoHeaders, [name |-> "bob"]),
      WithoutBody(CreateUser(UserSvc, NoHeaders, EmptyDict)),
      WithoutBody(CreateOrder(OrderSvc, NoHeaders, EmptyDict)) }
    \cup { CreateOrder(OrderSvc, NoHeaders, b) :
             b \in { OrderBody("1", "widget", JInt(2)),
                     OrderBody("1", "widget", JStr("abc")),
                     OrderBody("1/x", "widget", JInt(2)),
                     [product |-> JStr("widget"), quantity |-> JInt(2)] } }

\* Requests sent straight to the user service.
UsersWorkload ==
    { CreateUser(UserSvc, NoHeaders, UserBody),
      GetUser(UserSvc, "1"), DeleteUser(UserSvc, "1") }

\* Creations, reads and deletions of orders, after the creation of their user.
OrdersWorkload ==
    { CreateUser(UserSvc, NoHeaders, UserBody),
      CreateOrder(OrderSvc, NoHeaders, OrderBody("1", "widget", JInt(2))),
      CreateOrder(OrderSvc, NoHeaders, OrderBody("1", "gadget", JInt(2))),
      GetOrder(OrderSvc, "1"), GetOrdersList(OrderSvc), DeleteOrder(OrderSvc, "1") }

\* Requests sent straight to the two services, one after the answer to the other:
\* the creation of the user, orders that succeed and orders that fail, a deletion.
SequentialWorkload ==
    { CreateUser(UserSvc, NoHeaders, UserBody), DeleteOrder(OrderSvc, "1") }
    \cup { CreateOrder(OrderSvc, NoHeaders, b) :
             b \in { OrderBody("1", "widget", JInt(2)),
                     OrderBody("1", FailProduct, JInt(2)) } }

\* Calls of the gateway's user routes while no user exists, and one call of
\* proxy_request with a method it has no branch for.
ProxyWorkload ==
    { WithoutBody(CreateUser(Gateway, NoHeaders, EmptyDict)),
      GetUser(Gateway, "1"), DeleteUser(Gateway, "1"),
      Request(Gateway, "PUT", "get_user", "1", NoHeaders, EmptyDict) }

\* A user and orders for it, sent to the gateway.
ForwardedWorkload ==
    { CreateUser(Gateway, NoHeaders, UserBody),
      CreateOrder(Gateway, NoHeaders, OrderBody("1", "widget", JInt(2))),
      CreateOrder(Gateway, NoHeaders, OrderBody("1", FailProduct, JInt(2))) }

\* An order and a read of its user, sent to the gateway.
TimedWorkload ==
    { CreateOrder(Gateway, NoHeaders, OrderBody("1", "widget", JInt(2))),
      GetUser(Gateway, "1") }

\* Requests sent to the gateway, with and without a correlation header.
GatewayWorkload ==
    { CreateUser(Gateway, NoHeaders, UserBody) }
    \cup { CreateOrder(Gateway, h, b) :
             h \in {NoHeaders, WithCorrelation(""), WithCorrelation("abc")},
             b \in { OrderBody("1", "widget", JInt(2)), OrderBody("1", FailProduct, JInt(2)) } }

\* ------------------------------------------- the next-state relations
HookStep(r) == BeforeRequest(r) \/ AfterRequest(r) \/ handle_error(r)

UserStep(r) ==
    \/ GetUserCheck(r) \/ GetUserRead(r)
    \/ CreateUserReadId(r) \/ CreateUserLoadCounter(r)
    \/ CreateUserStoreCounter(r) \/ CreateUserInsert(r)

\* Has the caller of r stopped waiting for its answer?
CallerGone(r) ==
    /\ req[r].caller \in Services
    /\ req[<<r[1], req[r].caller>>].pc \in {"resp", "done"}

\* An order service that drops the handling of a request whose caller gave up.
OrderStepUnlessCallerGone(r) ==
    /\ ~CallerGone(r)
    /\ \/ CreateOrderValidateInput(r)
       \/ ValidateUserSend(r) \/ ValidateUserRequestException(r) \/ ValidateUserResponse(r)
       \/ CalculateTotal(r)
       \/ SaveOrderReadId(r) \/ SaveOrderLoadCounter(r)
       \/ SaveOrderStoreCounter(r) \/ SaveOrderInsert(r)
       \/ BusinessMetrics(r)

OrderStep(r) ==
    \/ CreateOrderValidateInput(r)
    \/ ValidateUserSend(r) \/ ValidateUserRequestException(r) \/ ValidateUserResponse(r)
    \/ CalculateTotal(r)
    \/ SaveOrderReadId(r) \/ SaveOrderLoadCounter(r)
    \/ SaveOrderStoreCounter(r) \/ SaveOrderInsert(r)
    \/ BusinessMetrics(r)

GatewayStep(r) ==
    \/ ProxySend(r) \/ ProxyConnectionError(r) \/ ProxyResponse(r)
    \/ ProxyTimeout(r) \/ ProxyOtherError(r)

\* The whole system: the clients call the gateway.
Next ==
    \/ \E e \in Clients, w \in GatewayWorkload : Issue(e, w)
    \/ \E r \in Reqs : HookStep(r) \/ GatewayStep(r) \/ UserStep(r) \/ OrderStep(r)

Spec == Init /\ [][Next]_vars

\* The whole system serving ForwardedWorkload, where every worker thread that can
\* take a step of its request takes one sooner or later: a thread is scheduled, and
\* each of its outbound calls ends in an answer or in its timeout.
NextForwarded ==
    \/ \E e \in Clients, w \in ForwardedWorkload : Issue(e, w)
    \/ \E r \in Reqs : HookStep(r) \/ GatewayStep(r) \/ UserStep(r) \/ OrderStep(r)

SpecForwarded ==
    /\ Init /\ [][NextForwarded]_vars
    /\ \A r \in Reqs : WF_vars(HookStep(r) \/ UserStep(r) \/ OrderStep(r))

\* The gateway and the order service with time, in front of a user service that
\* accepts every call and never answers; the order service's own steps take at most
\* MaxOrderBusy seconds per request.
NextTimed ==
    \/ \E e \in Clients, w \in TimedWorkload : Issue(e, w)
    \/ \E r \in Reqs :
          \/ Svc(r) # UserSvc /\ (BeforeRequest(r) \/ AfterRequest(r))
          \/ ProxySend(r) \/ ProxyResponse(r)
          \/ CreateOrderValidateInput(r) \/ ValidateUserSend(r)
          \/ TimerExpired(r) /\ (ProxyTimeout(r) \/ ValidateUserRequestException(r))
    \/ Tick

SpecTimed == Init /\ [][NextTimed]_vars

\* The order service and the user service, called directly by the clients.
NextBackend ==
    \/ \E e \in Clients, w \in BackendWorkload : Issue(e, w)
    \/ \E r \in Reqs : HookStep(r) \/ UserStep(r) \/ OrderStep(r)

SpecBackend == Init /\ [][NextBackend]_vars

\* The two services receiving creations that fail their validation. No request of
\* InputsWorkload creates a user, so create_order never gets past validate_user.
NextInputs ==
    \/ \E e \in Clients, w \in InputsWorkload : Issue(e, w)
    \/ \E r \in Reqs :
          \/ HookStep(r) \/ CreateUserReadId(r) \/ GetUserCheck(r)
          \/ CreateOrderValidateInput(r) \/ ValidateUserSend(r)
          \/ ValidateUserRequestException(r) \/ ValidateUserResponse(r)

SpecInputs == Init /\ [][NextInputs]_vars

\* The steps of the read, list and delete routes.
UserCrudStep(r) ==
    GetUsers(r) \/ DeleteUserCheck(r) \/ DeleteUserPop(r)
OrderCrudStep(r) ==
    \/ GetOrders(r) \/ GetOrderCheck(r) \/ GetOrderRead(r)
    \/ DeleteOrderCheck(r) \/ DeleteOrderPop(r)

\* The clients' requests that are not answered yet.
InFlight == { c \in DOMAIN req : req[c].caller = "client" /\ req[c].pc # "done" }

InitCrud(clients) ==
    /\ req = [r \in clients \X Services |-> NoRequest]
    /\ issued = 0
    /\ http_requests_total = [s \in Services |-> EmptyDict]
    /\ http_request_duration_seconds = [s \in Services |-> EmptyDict]
    /\ http_requests_active = [s \in Services |-> 0]
    /\ orders_db = EmptyDict
    /\ order_id_counter = 1
    /\ orders_created_total = EmptyDict
    /\ order_value_total = 0
    /\ users_db = EmptyDict
    /\ user_id_counter = 1
    /\ users_created_total = 0

\* The user service alone, called directly by the clients.
UserClients == 1..MaxUserClients
NextUsers ==
    \/ \E e \in UserClients, w \in UsersWorkload :
          Cardinality(InFlight) < MaxInFlight /\ Issue(e, w)
    \/ \E r \in DOMAIN req : HookStep(r) \/ UserStep(r) \/ DeleteUserCheck(r) \/ DeleteUserPop(r)

SpecUsers == InitCrud(UserClients) /\ [][NextUsers]_vars

\* The order service and the user service with the order routes for reading and
\* deleting.
OrderClients == 1..MaxOrderClients
NextOrders ==
    \/ \E e \in OrderClients, w \in OrdersWorkload :
          Cardinality(InFlight) < MaxInFlight /\ Issue(e, w)
    \/ \E r \in DOMAIN req : HookStep(r) \/ UserStep(r) \/ OrderStep(r) \/ OrderCrudStep(r)

SpecOrders == InitCrud(OrderClients) /\ [][NextOrders]_vars

\* No service is handling a request.
Quiescent == \A c \in DOMAIN req : req[c].pc \in {"none", "done"}

\* The order service and the user service handling one request at a time: a client
\* sends its request when both services have finished with the one before it.
SeqClients == 1..MaxSeqClients
NextSequential ==
    \/ \E e \in SeqClients, w \in SequentialWorkload : Quiescent /\ Issue(e, w)
    \/ \E r \in DOMAIN req :
          \/ HookStep(r) \/ UserStep(r) \/ OrderStep(r)
          \/ DeleteOrderCheck(r) \/ DeleteOrderPop(r)

SpecSequential == InitCrud(SeqClients) /\ [][NextSequential]_vars

\* The gateway in front of the user service. No request of ProxyWorkload creates a
\* user, so of the user service's steps only the membership tests of get_user and
\* delete_user can be taken.
NextProxy ==
    \/ \E e \in Clients, w \in ProxyWorkload : Issue(e, w)
    \/ \E r \in Reqs :
          \/ HookStep(r) \/ GatewayStep(r)
          \/ GetUserCheck(r) \/ DeleteUserCheck(r)

SpecProxy == Init /\ [][NextProxy]_vars

\* ---------------------------------------------------------- the claims
Entered(r) == req[r].pc \notin {"none", "arrived"}
\* Between the entry hook and the exit hook.
Handled(r) == Entered(r) /\ req[r].pc # "done"
Finished(r) == req[r].pc = "done"
HasCorrelationHeader(r) == CorrelationHeader \in DOMAIN req[r].headers
Caller(r) == req[<<r[1], req[r].caller>>]

\* C1: every call a service makes while handling a request carries an
\* X-Correlation-ID header equal to the correlation identity of the request being
\* handled, so the callee handles it under the caller's identity; when the client's
\* request went gateway -> order service -> user service, the identity the gateway
\* returns to the client is the one all three handled it under.
C1_OutboundCarriesCorrelation ==
    \A r \in Reqs :
        /\ (req[r].pc # "none" /\ req[r].caller # "client") =>
              /\ HasCorrelationHeader(r)
              /\ req[r].headers[CorrelationHeader] = Caller(r).correlation_id
              /\ Entered(r) => req[r].correlation_id = Caller(r).correlation_id
        /\ (Svc(r) = Gateway /\ Finished(r)) =>
              \A s \in Services :
                  Entered(<<r[1], s>>) =>
                      req[r].resp_headers[CorrelationHeader] = req[<<r[1], s>>].correlation_id

\* A client's POST /orders without a header has gone through all three services.
C1_Witness ==
    \E e \in Clients :
        /\ \A s \in Services : Finished(<<e, s>>)
        /\ req[<<e, Gateway>>].headers = NoHeaders
        /\ req[<<e, Gateway>>].resp_headers = WithCorrelation(req[<<e, UserSvc>>].correlation_id)

\* C2: a request that carries X-Correlation-ID = v is answered with
\* X-Correlation-ID = v, whatever its outcome and whatever else is being handled.
C2_ResponseEchoesCorrelation ==
    \A r \in Reqs :
        (Finished(r) /\ HasCorrelationHeader(r)) =>
            req[r].resp_headers = WithCorrelation(req[r].headers[CorrelationHeader])

\* A request with a header has ended in the global handler's 500 while a request
\* with another correlation identity was being handled.
C2_Witness ==
    \E r, o \in Reqs :
        /\ Finished(r) /\ req[r].error_handler /\ req[r].status = 500
        /\ req[r].headers = WithCorrelation("abc")
        /\ req[r].resp_headers = WithCorrelation("abc")
        /\ Handled(o) /\ req[o].correlation_id # "abc"

\* The derivation C3 describes: the header's value if present and non-empty, else
\* a fresh identifier.
DeriveNonEmpty(headers, fresh) ==
    IF CorrelationHeader \in DOMAIN headers /\ headers[CorrelationHeader] # ""
    THEN headers[CorrelationHeader] ELSE fresh

\* C3: the correlation identity of a request is the inbound header's value only if
\* the header is present and non-empty, and a freshly generated identifier in every
\* other case, so it is never empty and no two requests share a generated one.
C3_DerivedIdentityNeverEmpty ==
    \A r \in Reqs :
        Entered(r) =>
            /\ req[r].correlation_id = DeriveNonEmpty(req[r].headers, Uuid4(r))
            /\ req[r].correlation_id # ""

\* C4: the active-request gauge of every service equals the number of requests the
\* service is handling (entered, not yet left), is never negative, and is back at
\* its initial value 0 once every request has left.
C4_GaugeCountsHandled ==
    \A s \in Services :
        /\ http_requests_active[s] = Cardinality({ r \in Reqs : Svc(r) = s /\ Handled(r) })
        /\ http_requests_active[s] >= 0
        /\ (\A r \in Reqs : ~Handled(r)) => http_requests_active[s] = 0

\* Every request has left, one of them through the global handler and one after
\* its outbound call timed out, and the gauges are back at 0.
C4_Witness ==
    /\ issued = MaxClients
    /\ \A r \in Reqs : req[r].pc \in {"none", "done"}
    /\ \E r \in Reqs : req[r].error_handler
    /\ \E r \in Reqs : Svc(r) = Gateway /\ req[r].status = 504
    /\ \A s \in Services : http_requests_active[s] = 0

\* The requests of service s that have left with the labels l.
LeftWith(s, l) ==
    { r \in Reqs : Svc(r) = s /\ Finished(r)
                   /\ <<req[r].method, req[r].endpoint, req[r].status>> = l }

\* C5: the exit hook runs exactly once for every request, the global handler's 500
\* included: each request that has left is counted once in http_requests_total under
\* the status of the response it returned, no other request is counted, and its
\* response carries the correlation header.
C5_ExitHookOncePerRequest ==
    /\ \A s \in Services :
          /\ \A l \in DOMAIN http_requests_total[s] :
                http_requests_total[s][l] = Cardinality(LeftWith(s, l))
          /\ \A r \in Reqs :
                (Svc(r) = s /\ Finished(r)) =>
                    <<req[r].method, req[r].endpoint, req[r].status>>
                        \in DOMAIN http_requests_total[s]
    /\ \A r \in Reqs :
          Finished(r) => req[r].resp_headers = WithCorrelation(req[r].correlation_id)

\* A request that raised in its view function has left with the global handler's
\* 500 and is counted under 500.
C5_Witness ==
    \E r \in Reqs :
        /\ Finished(r) /\ req[r].error_handler /\ req[r].status = 500
        /\ http_requests_total[Svc(r)][<<req[r].method, req[r].endpoint, 500>>] = 1

Range(seq) == { seq[i] : i \in 1..Len(seq) }
IsPrefix(a, b) == Len(a) <= Len(b) /\ \A i \in 1..Len(a) : a[i] = b[i]
\* The view function or the global handler has produced the response.
Returned(r) == req[r].pc \in {"resp", "done"}
IsCreate(r, endpoint) == req[r].pc # "none" /\ req[r].endpoint = endpoint
IsCreateOrder(r) == Svc(r) = OrderSvc /\ IsCreate(r, "create_order")
HasOrderFields(r) == {"user_id", "product", "quantity"} \subseteq DOMAIN req[r].json
IsFailProductOrder(r) ==
    IsCreateOrder(r) /\ HasOrderFields(r) /\ req[r].json["product"] = JStr(FailProduct)
OrderStoreUnchanged == UNCHANGED <<orders_db, order_id_counter>>

\* C6: no two successful creations of a service return the same id (so no creation
\* overwrites the record of another), also when creations are handled concurrently.
C6_IdentitiesNeverAssignedTwice ==
    \A r1, r2 \in Reqs :
        ( /\ r1 # r2 /\ Svc(r1) = Svc(r2) /\ Svc(r1) # Gateway
          /\ req[r1].endpoint \in {"create_order", "create_user"}
          /\ req[r2].endpoint = req[r1].endpoint
          /\ req[r1].status = 201 /\ req[r2].status = 201 )
        => req[r1].body.id # req[r2].body.id

\* C7: a POST /orders with user_id, product and quantity, whose product is not the
\* sentinel and whose user the user service answered 200 for, returns 201 and the
\* order stored: under an id no other creation got, with status "pending", the
\* request's user_id, product and quantity, and total = unit price * quantity.
C7_ValidOrderIsCreated ==
    \A r \in Reqs :
        ( /\ IsCreateOrder(r) /\ HasOrderFields(r)
          /\ req[r].json["product"] # JStr(FailProduct)
          /\ req[r].user_status = 200
          /\ Returned(r) )
        => /\ req[r].status = 201
           /\ req[r].body = [id |-> req[r].new_id, user_id |-> req[r].json["user_id"],
                             product |-> req[r].json["product"],
                             quantity |-> IntOf(req[r].json["quantity"]),
                             total |-> PricePerItemCents * IntOf(req[r].json["quantity"]),
                             status |-> "pending"]
           /\ \A o \in Reqs :
                 (o # r /\ IsCreateOrder(o) /\ req[o].status = 201)
                     => req[o].body.id # req[r].body.id

\* C8: a POST /orders whose user the user service reports as not found returns 404
\* and creates no order record: it never takes an id, and no step of the request,
\* before or after the reply, changes the order store or the id counter.
C8_UserNotFoundCreatesNothing ==
    /\ [](\A r \in Reqs :
             (IsCreateOrder(r) /\ req[r].user_status = 404)
                 => (req[r].status = 404 /\ req[r].new_id = ""))
    /\ [][\A r \in Reqs :
             (IsCreateOrder(r) /\ req'[r] # req[r])
                 => /\ req[r].user_status = 404 => req'[r].user_status = 404
                    /\ req[r].user_status # 200 => OrderStoreUnchanged]_vars

\* A POST /orders for a user that does not exist has returned 404.
C8_Witness ==
    \E r \in Reqs :
        /\ IsCreateOrder(r) /\ Finished(r)
        /\ req[r].user_status = 404 /\ req[r].status = 404
        /\ orders_db = EmptyDict /\ order_id_counter = 1

\* C9 as stated: every POST /orders with user_id, product = "fail_product" and
\* quantity returns the global failure handler's 500.
C9_FailProductAlwaysUnhandled ==
    \A r \in Reqs :
        (IsFailProductOrder(r) /\ Returned(r))
            => (req[r].status = 500 /\ req[r].error_handler)

\* C9 amended: a POST /orders with product "fail_product" whose user the user
\* service answered 200 for returns 500 from the global failure handler; and no
\* POST /orders with product "fail_product", however it ends, creates an order
\* record.
C9_FailProductAfterValidation ==
    /\ [](\A r \in Reqs :
             IsFailProductOrder(r) =>
                 /\ (Returned(r) /\ req[r].user_status = 200)
                        => (req[r].status = 500 /\ req[r].error_handler)
                 /\ req[r].new_id = ""
                 /\ "save_order" \notin Range(req[r].spans))
    /\ [][\A r \in Reqs :
             (IsFailProductOrder(r) /\ req'[r] # req[r]) => OrderStoreUnchanged]_vars

\* A "fail_product" order for an existing user has ended in the global handler.
C9_Witness ==
    \E r \in Reqs :
        /\ IsFailProductOrder(r) /\ Finished(r)
        /\ req[r].user_status = 200
        /\ req[r].status = 500 /\ req[r].error_handler
        /\ orders_db = EmptyDict

\* The spans create_order opens, in the order of its steps.
OrderSteps == <<"create_order", "validate_user", "calculate_total", "save_order">>

\* C10: within one POST /orders the steps run in strict order, each at most once;
\* persist-order runs only after the user service answered 200; and a request that
\* ends in 400, 404, 500 or 503 has persisted nothing and taken no id.
C10_NoStepAfterTerminalOutcome ==
    \A r \in Reqs :
        IsCreateOrder(r) =>
            /\ IsPrefix(req[r].spans, OrderSteps)
            /\ "save_order" \in Range(req[r].spans) => req[r].user_status = 200
            /\ (Returned(r) /\ req[r].status \in {400, 404, 500, 503})
                   => ("save_order" \notin Range(req[r].spans) /\ req[r].new_id = "")

\* C11: in the validate-user step of POST /orders, an answer of the user service
\* whose status is neither 200 nor 404 ends the request with 500 "Failed to validate
\* user", and a call that cannot complete (no connection, no answer in time) ends it
\* with 503 "Service unavailable"; both are returned by create_order itself, never
\* by the global failure handler, and nothing is persisted.
C11_ValidateUserFailuresClassified ==
    \A r \in Reqs :
        IsCreateOrder(r) =>
            /\ req[r].user_status \notin {0, 200, 404} =>
                  /\ Returned(r)
                  /\ req[r].status = 500
                  /\ req[r].body = ErrorBody("Failed to validate user")
                  /\ ~req[r].error_handler /\ req[r].new_id = ""
            /\ req[r].exc # "" =>
                  /\ Returned(r)
                  /\ req[r].status = 503
                  /\ req[r].body = ErrorBody("Service unavailable")
                  /\ ~req[r].error_handler /\ req[r].new_id = ""

\* One POST /orders has ended with 500 after the user service answered 500, and
\* another with 503 after the user service gave no answer in time.
C11_Witness ==
    \E r, o \in Reqs :
        /\ IsCreateOrder(r) /\ Finished(r) /\ req[r].user_status = 500
        /\ req[r].status = 500 /\ ~req[r].error_handler
        /\ IsCreateOrder(o) /\ Finished(o) /\ req[o].exc = "ReadTimeout"
        /\ req[o].status = 503 /\ ~req[o].error_handler

\* C12: a POST /orders whose body lacks user_id, product or quantity, or that has
\* no body, ends with 400 and runs no further step: the user service is not called,
\* no span but the root create_order span is opened, and no id is taken.
C12_IncompleteOrderIsBadRequest ==
    \A r \in Reqs :
        (IsCreateOrder(r) /\ ~HasOrderFields(r)) =>
            /\ Returned(r) => req[r].status = 400
            /\ req[Child(r, UserSvc)].pc = "none"
            /\ IsPrefix(req[r].spans, <<"create_order">>)
            /\ req[r].new_id = ""

IsProxied(r) == Svc(r) = Gateway /\ req[r].pc # "none"
ProxySpanErrored(r) == ProxySpan(req[r].endpoint) \in req[r].errored

\* C13: the gateway's proxy maps each failure of its outbound call to a fixed
\* outcome: a timeout (of the connection or of the answer) returns 504, a call that
\* cannot be established returns 503, any other failure returns 500; in all three
\* cases the proxy span is marked errored and proxy_request itself returns the
\* failure, not the global handler.
C13_ProxyFailureClasses ==
    \A r \in Reqs :
        (IsProxied(r) /\ req[r].exc # "") =>
            /\ Returned(r) /\ ~req[r].error_handler /\ ProxySpanErrored(r)
            /\ req[r].exc \in {"ReadTimeout", "ConnectTimeout"} =>
                  (req[r].status = 504 /\ req[r].body = ErrorBody("Service timeout"))
            /\ req[r].exc = "ConnectionError" =>
                  (req[r].status = 503 /\ req[r].body = ErrorBody("Service unavailable"))
            /\ req[r].exc = "ChunkedEncodingError" =>
                  (req[r].status = 500 /\ req[r].body = ErrorBody("Internal server error"))

\* One proxied request has ended with 503 for a backend that cannot be reached and
\* another with 504 for a backend that did not answer in time.
C13_Witness ==
    \E r, o \in Reqs :
        /\ IsProxied(r) /\ Finished(r) /\ req[r].exc = "ConnectionError"
        /\ req[r].status = 503 /\ ProxySpanErrored(r)
        /\ IsProxied(o) /\ Finished(o) /\ req[o].exc = "ReadTimeout"
        /\ req[o].status = 504 /\ ProxySpanErrored(o)

\* The backend request made on behalf of the gateway request r.
Backend(r) == req[Child(r, ProxyTarget(req[r].endpoint))]
\* The outbound call of r returned the backend's answer.
BackendAnswered(r) ==
    IsProxied(r) /\ Returned(r) /\ req[r].attempts = 1 /\ req[r].exc = ""

\* C14: whenever the backend answers the gateway's outbound call, the gateway
\* returns the backend's status code and body unchanged, whatever the status (201,
\* 404, 500, 503, ...): the client of POST /orders sees the order service's outcome.
C14_ProxyPassesThrough ==
    \A r \in Reqs :
        BackendAnswered(r) =>
            /\ Finished(<<r[1], ProxyTarget(req[r].endpoint)>>)
            /\ req[r].status = Backend(r).status
            /\ req[r].body = Backend(r).body
            /\ ~req[r].error_handler

\* The clients of two POST /orders have received the order service's 404 and the
\* order service's 503.
C14_Witness ==
    \E r, o \in Reqs :
        /\ BackendAnswered(r) /\ Finished(r) /\ req[r].endpoint = "create_order"
        /\ Backend(r).status = 404 /\ req[r].status = 404
        /\ req[r].body = ErrorBody("User not found")
        /\ BackendAnswered(o) /\ Finished(o) /\ req[o].endpoint = "create_order"
        /\ Backend(o).status = 503 /\ req[o].status = 503
        /\ req[o].body = ErrorBody("Service unavailable")

\* proxy_request has been called for the gateway request r.
ProxyInvoked(r) == IsProxied(r) /\ ProxySpan(req[r].endpoint) \in Range(req[r].spans)
\* The backend services that received a call made on behalf of r.
Called(r) == { s \in Services \ {Gateway} : req[<<r[1], s>>].pc # "none" }

\* C15: a call of proxy_request with GET, POST or DELETE makes exactly one outbound
\* attempt, to one backend service, and none after a timeout or another failure; a
\* call with any other method returns 405 and makes no outbound call.
C15_OneOutboundAttempt ==
    \A r \in Reqs :
        ProxyInvoked(r) =>
            /\ req[r].attempts <= 1
            /\ Called(r) \subseteq {ProxyTarget(req[r].endpoint)}
            /\ (Returned(r) /\ req[r].method \in {"GET", "POST", "DELETE"})
                   => req[r].attempts = 1
            /\ req[r].method \notin {"GET", "POST", "DELETE"} =>
                  /\ req[r].attempts = 0 /\ Called(r) = {}
                  /\ Returned(r)
                  /\ req[r].status = 405
                  /\ req[r].body = ErrorBody("Method not supported")

\* A call with PUT has ended with 405 without an outbound call, and a GET whose
\* backend did not answer in time has ended with 504 after its one attempt.
C15_Witness ==
    \E r, o \in Reqs :
        /\ ProxyInvoked(r) /\ Finished(r) /\ req[r].method = "PUT"
        /\ req[r].status = 405 /\ req[r].attempts = 0 /\ Called(r) = {}
        /\ ProxyInvoked(o) /\ Finished(o) /\ req[o].method = "GET"
        /\ req[o].exc = "ReadTimeout" /\ req[o].status = 504 /\ req[o].attempts = 1

IsDeleteUser(r) == Svc(r) = UserSvc /\ req[r].endpoint = "delete_user"
IsUserById(r) == Svc(r) = UserSvc /\ req[r].endpoint \in {"get_user", "delete_user"}
\* The request r gets its response in this step.
Returns(r) == ~Returned(r) /\ req'[r].pc = "resp"
Without(db, id) == [k \in DOMAIN db \ {id} |-> db[k]]

\* C16 (for users; delete_order and get_order are written the same way): DELETE of
\* an id not in the store returns 404 and leaves the store unchanged; DELETE of an
\* id in the store returns 200 and removes exactly that record; and every GET or
\* DELETE of that id sent after the 200 returns 404, for the rest of the run.
C16_DeletedStaysDeleted ==
    /\ [](\A d, o \in DOMAIN req :
             ( /\ IsDeleteUser(d) /\ Finished(d) /\ req[d].status = 200
               /\ IsUserById(o) /\ req[o].arg = req[d].arg
               /\ d \in req[o].prior /\ Returned(o) )
             => req[o].status = 404)
    /\ [][\A d \in DOMAIN req :
             (IsDeleteUser(d) /\ Returns(d)) =>
                 /\ req'[d].status = 404 => users_db' = users_db
                 /\ req'[d].status = 200 =>
                       (req[d].arg \in DOMAIN users_db
                        /\ users_db' = Without(users_db, req[d].arg))]_vars

\* C17: a GET or DELETE of a user by id (get_order and delete_order are written
\* the same way) always ends in the view's own 200 or 404 and never in the global
\* failure handler's 500, also when its membership test and its lookup or removal
\* interleave with a concurrent DELETE of the same id.
C17_ByIdNeverUnhandled ==
    \A r \in DOMAIN req :
        (IsUserById(r) /\ Returned(r)) =>
            (req[r].status \in {200, 404} /\ ~req[r].error_handler)

\* Every span started in ev is ended later in ev.
AllEnded(ev) ==
    \A i \in 1..Len(ev) :
        ev[i][1] = "start" => \E j \in (i+1)..Len(ev) : ev[j] = <<"end", ev[i][2]>>
\* A span started while another is open is ended before the other is.
EndedInReverse(ev) ==
    \A i, j \in 1..Len(ev) :
        (i < j /\ ev[i][1] = "start" /\ ev[j] = <<"end", ev[i][2]>>) =>
            \A k \in (i+1)..(j-1) :
                ev[k][1] = "start" => \E l \in (k+1)..(j-1) : ev[l] = <<"end", ev[k][2]>>
\* Only started spans are ended, and each once.
EndedOnce(ev) ==
    \A j \in 1..Len(ev) :
        ev[j][1] = "end" =>
            /\ \E i \in 1..(j-1) : ev[i] = <<"start", ev[j][2]>>
            /\ \A l \in 1..Len(ev) : ev[l] = ev[j] => l = j

\* C18: every span opened while a request is handled (create_order, validate_user,
\* calculate_total, save_order, the proxy span, the spans of the user routes) is
\* closed when the handling ends, on every exit path (return, early return with a
\* classified failure, raised error), and a child span is closed before its parent.
C18_SpansClosedInReverse ==
    \A r \in Reqs :
        /\ EndedInReverse(req[r].events)
        /\ EndedOnce(req[r].events)
        /\ (Returned(r) \/ req[r].pc = "raised") =>
              (AllEnded(req[r].events) /\ req[r].open = <<>>)
        /\ Len(req[r].events) <= 2 * Len(req[r].spans)

\* A POST /orders sent through the gateway has raised in calculate_total and ended
\* in the global handler with its three spans closed innermost first; the proxy span
\* of the gateway and the get_user span of the user service are closed too.
C18_Witness ==
    \E r \in Reqs :
        /\ IsCreateOrder(r) /\ Finished(r) /\ req[r].error_handler
        /\ req[r].events = << <<"start", "create_order">>, <<"start", "validate_user">>,
                              <<"end", "validate_user">>, <<"start", "calculate_total">>,
                              <<"end", "calculate_total">>, <<"end", "create_order">> >>
        /\ Finished(Child(r, Gateway))
        /\ req[Child(r, Gateway)].events = << <<"start", "proxy_to_order-service">>,
                                              <<"end", "proxy_to_order-service">> >>
        /\ Finished(Child(r, UserSvc))
        /\ req[Child(r, UserSvc)].events = << <<"start", "get_user">>, <<"end", "get_user">> >>

\* C19: an order record, once stored, is never changed until its id is deleted:
\* every stored record is the record built by a creation request that was given
\* that id, and no step of any request (create, get, list, delete) replaces the
\* record stored under an id that stays in the store.
C19_StoredOrderNeverChanges ==
    /\ [](\A id \in DOMAIN orders_db :
             \E r \in DOMAIN req :
                 /\ IsCreateOrder(r) /\ req[r].new_id = id
                 /\ orders_db[id] = OrderRecord(req[r]))
    /\ [][\A id \in DOMAIN orders_db \cap DOMAIN orders_db' :
             orders_db'[id] = orders_db[id]]_vars

IsCreateUser(r) == Svc(r) = UserSvc /\ IsCreate(r, "create_user")
HasUserFields(r) == {"name", "email"} \subseteq DOMAIN req[r].json

\* C20: POST /users with a body that has both name and email returns 201 and the
\* user stored under an id no other creation got; a body without name or email, or
\* no body, returns 400 and takes no id (the user store and the id counter stay
\* as they were).
C20_CreateUserOutcomes ==
    \A r \in Reqs :
        (IsCreateUser(r) /\ Returned(r)) =>
            IF HasUserFields(r)
            THEN /\ req[r].status = 201
                 /\ req[r].body = [id |-> req[r].new_id, name |-> req[r].json["name"],
                                   email |-> req[r].json["email"]]
                 /\ \A o \in Reqs :
                       (o # r /\ IsCreateUser(o) /\ req[o].status = 201)
                           => req[o].body.id # req[r].body.id
            ELSE /\ req[r].status = 400
                 /\ req[r].new_id = ""

\* A labelled counter family keeps every label set it has and none of them goes down.
FamilyNotDecreased(old, new) ==
    \A l \in DOMAIN old : l \in DOMAIN new /\ new[l] >= old[l]
IsNegativeOrder(r) ==
    IsCreateOrder(r) /\ HasOrderFields(r) /\ req[r].quantity < 0

\* C21: no step of any request makes a counter go down: the request counter of each
\* service for each label set, the orders-created counter for each product, the
\* order-value counter and the users-created counter.
C21_CountersNeverDecrease ==
    [][/\ \A s \in Services :
             FamilyNotDecreased(http_requests_total[s], http_requests_total'[s])
       /\ FamilyNotDecreased(orders_created_total, orders_created_total')
       /\ order_value_total' >= order_value_total
       /\ users_created_total' >= users_created_total]_vars

\* An order with a negative quantity reached the business metrics and was answered,
\* after the creation of its user was counted.
C21_Witness ==
    \E r \in Reqs :
        /\ IsNegativeOrder(r) /\ Finished(r) /\ req[r].total < 0
        /\ "widget" \in DOMAIN orders_created_total
        /\ order_value_total = 0
        /\ users_created_total = 1
        /\ http_requests_total[OrderSvc] # EmptyDict

\* The POST /orders requests that have reached the persist step.
ReachedPersist == { o \in DOMAIN req : IsCreateOrder(o) /\ req[o].new_id # "" }
IsDeleteOrder(r) == Svc(r) = OrderSvc /\ req[r].endpoint = "delete_order"

\* C22: with requests handled one at a time, the k-th POST /orders that reaches the
\* persist step gets id k, whatever was deleted before; a POST /orders that ended
\* before the persist step (400, 404, 503, the sentinel's 500) has taken no id; and
\* the counter is one more than the number of ids handed out.
C22_SequentialIdsWithoutGaps ==
    /\ \A r \in ReachedPersist :
          req[r].new_id = ToString(Cardinality({ o \in ReachedPersist : o[1] <= r[1] }))
    /\ \A r \in DOMAIN req :
          (IsCreateOrder(r) /\ Returned(r)
             /\ (req[r].status \in {400, 404, 503} \/ IsFailProductOrder(r)))
          => req[r].new_id = ""
    /\ (\A r \in DOMAIN req : IsCreateOrder(r) => Returned(r))
          => order_id_counter = Cardinality(ReachedPersist) + 1

\* Order "1" was created and deleted, and the next order got id "2".
C22_Witness ==
    /\ DOMAIN orders_db = {"2"}
    /\ \E r \in ReachedPersist :
          /\ Finished(r) /\ req[r].status = 201 /\ req[r].body.id = "2"
          /\ \E d \in DOMAIN req :
                IsDeleteOrder(d) /\ Finished(d) /\ req[d].status = 200 /\ d[1] < r[1]

\* The POST /orders requests that returned 201.
Created == { r \in DOMAIN req : IsCreateOrder(r) /\ Returned(r) /\ req[r].status = 201 }
CreatedOf(p) == { r \in Created : StrOf(req[r].product) = p }
RECURSIVE SumTotals(_)
SumTotals(S) ==
    IF S = {} THEN 0
    ELSE LET r == CHOOSE x \in S : TRUE IN req[r].total + SumTotals(S \ {r})

\* C23: at every moment the orders-created counter of each product is the number of
\* POST /orders for that product that returned 201, and the order-value counter is
\* the sum of the totals of those orders; so a request with any other outcome has
\* changed neither counter.
C23_BusinessMetricsTrackCreated ==
    /\ \A p \in DOMAIN orders_created_total :
          orders_created_total[p] = Cardinality(CreatedOf(p))
    /\ \A r \in Created : StrOf(req[r].product) \in DOMAIN orders_created_total
    /\ order_value_total = SumTotals(Created)

\* The gateway's wait for the answer to request r expired: its client got 504.
GatewayGaveUp(r) ==
    /\ IsProxied(r) /\ req[r].endpoint = "create_order"
    /\ req[r].exc = "ReadTimeout" /\ req[r].status = 504

\* C24: when the gateway's wait for a forwarded POST /orders expires, the order
\* service's handling of it is left as it is, goes on and ends with its own outcome:
\* the step that gives the client its 504 changes nothing of the order service's
\* request, that request is answered later, and when its user was found and its
\* product is not the sentinel its answer is 201 with the order in the store.
C24_NoCancellationPropagation ==
    /\ [][\A e \in Clients :
             (GatewayGaveUp(<<e, Gateway>>)' /\ ~GatewayGaveUp(<<e, Gateway>>))
                 => /\ req'[<<e, OrderSvc>>] = req[<<e, OrderSvc>>]
                    /\ UNCHANGED orderState]_vars
    /\ \A e \in Clients :
          (GatewayGaveUp(<<e, Gateway>>) /\ Entered(<<e, OrderSvc>>))
              ~> Finished(<<e, OrderSvc>>)
    /\ [](\A e \in Clients :
             ( /\ GatewayGaveUp(<<e, Gateway>>) /\ Finished(<<e, OrderSvc>>)
               /\ req[<<e, OrderSvc>>].user_status = 200
               /\ ~IsFailProductOrder(<<e, OrderSvc>>) )
             => /\ req[<<e, OrderSvc>>].status = 201
                /\ req[<<e, OrderSvc>>].new_id \in DOMAIN orders_db)

\* The client got 504 while the order service was handling its order, and the order
\* was persisted all the same.
C24_Witness ==
    \E e \in Clients :
        /\ GatewayGaveUp(<<e, Gateway>>) /\ Finished(<<e, Gateway>>)
        /\ Finished(<<e, OrderSvc>>) /\ req[<<e, OrderSvc>>].status = 201
        /\ req[<<e, OrderSvc>>].new_id \in DOMAIN orders_db

\* Request r has the record it built in the store.
StoredBy(r) ==
    /\ req[r].new_id \in DOMAIN orders_db
    /\ orders_db[req[r].new_id] = OrderRecord(req[r])

\* C25: a POST /orders that returned anything but 201 has taken no id and put no
\* record into the store, whatever its quantity was; one that returned 201 has
\* taken an id (and C7 says what it stored).
C25_StoreChangesOnlyWith201 ==
    \A r \in DOMAIN req :
        (IsCreateOrder(r) /\ Returned(r)) =>
            /\ req[r].status = 201 <=> req[r].new_id # ""
            /\ req[r].status # 201 => ~StoredBy(r)

\* C26: with timeout=5 in the order service and timeout=10 in the gateway, a
\* POST /orders through the gateway while the user service never answers ends with
\* the order service's 503 "Service unavailable" passed on by the gateway, and never
\* with the gateway's own 504: the gateway's wait has not expired when the answer
\* comes, given that the order service's own steps take less than 10 - 5 seconds.
C26_InnerTimeoutWins ==
    \A e \in Clients :
        LET g == <<e, Gateway>>
            o == <<e, OrderSvc>> IN
        (IsProxied(g) /\ req[g].endpoint = "create_order") =>
            /\ req[g].waited <= req[o].waited + req[o].busy
            /\ req[g].waited < GatewayTimeout
            /\ req[g].exc = ""
            /\ Returned(g) =>
                  /\ req[g].status = 503
                  /\ req[g].body = ErrorBody("Service unavailable")
                  /\ req[o].exc = "ReadTimeout"
                  /\ req[o].waited = UserServiceTimeout

\* The order service waited its 5 seconds and took 4 more for its own steps; the
\* gateway, 9 seconds into its wait, passed the 503 on.
C26_Witness ==
    \E e \in Clients :
        /\ Finished(<<e, Gateway>>) /\ req[<<e, Gateway>>].endpoint = "create_order"
        /\ req[<<e, Gateway>>].status = 503
        /\ req[<<e, Gateway>>].waited = GatewayTimeout - 1
        /\ req[<<e, OrderSvc>>].busy = MaxOrderBusy
        /\ req[<<e, OrderSvc>>].waited = UserServiceTimeout

====
